---------------------------- MODULE Spec2Model ----------------------------
(* A model of the printing_bytes crate (src/src/lib.rs):                   *)
(*   - replace_with_tags, driven as in tests::replace_tags_test, called    *)
(*     twice on the same source with an alphabet rebuilt by                *)
(*     make_replace_list each time;                                        *)
(*   - make_freq_map and make_freq_list on arbitrary inputs;               *)
(*   - print_bytes / parse_bytes on byte lists under the four modes.       *)
(* Tokens are strings, tags are code points (integers), text is a sequence *)
(* of one-character strings.  A HashSet / HashMap iteration order is not   *)
(* fixed by the code (std's RandomState), so every draw from one is a      *)
(* nondeterministic choice among the elements not yet yielded; drawn is    *)
(* the set of tags the iterator of the running call has yielded.           *)
EXTENDS Integers, Sequences, FiniteSets, TLC

VARIABLES src, start, end, tags, drawn, mappings, out, pc, result, call,
          prev, ub, ref_occur, test,
          f_src, occurences, f_map, f_list, f_pc,
          mode, bytes, text, parsed, c_pc

replaceVars == <<src, start, end, tags, drawn, mappings, out, pc, result,
                 call, prev, ub, ref_occur, test>>
freqVars == <<f_src, occurences, f_map, f_list, f_pc>>
codecVars == <<mode, bytes, text, parsed, c_pc>>
vars == <<replaceVars, freqVars, codecVars>>

(* ------------------------------ bounds -------------------------------- *)
\* longest source sequence handed to replace_with_tags / make_freq_map
MaxLen == 3
\* largest code point an alphabet range may end at
MaxTag == 4
\* largest count stored in a frequency map handed directly to make_freq_list
MaxCount == 2
\* longest byte list handed to print_bytes
MaxBytes == 2

\* the tokens a source sequence is made of (decimal byte strings)
Tokens == {"1", "2", "3"}
\* the code points a range may start at
Starts == {1, 2}
\* the code points of every tag that exists
TagUniverse == 1..MaxTag

(* ------------------------------ helpers -------------------------------- *)
Range(s) == {s[i] : i \in DOMAIN s}

SeqsUpTo(S, n) == UNION {[1..k -> S] : k \in 0..n}

\* every order in which the elements of S can be yielded
Orders(S) == {p \in [1..Cardinality(S) -> S] :
                 \A i, j \in DOMAIN p : i # j => p[i] # p[j]}

EmptyMap == [x \in {} |-> 0]

Ok(v) == [kind |-> "Ok", val |-> v]
Err(e) == [kind |-> e, val |-> <<>>]
NoResult == [kind |-> "None", val |-> <<>>]

(* ------------------------- make_replace_list --------------------------- *)
RECURSIVE InsertRange(_, _, _)
InsertRange(replace_map, ch, last) ==
    IF ch > last THEN replace_map
    ELSE InsertRange(replace_map \cup {ch}, ch + 1, last)

make_replace_list(first, last) == InsertRange({}, first, last)

(* -------------------------- replace_with_tags -------------------------- *)
\* a capacity check that is off by one: one tag too few is let through
NotEnoughTagsOffByOne(len, ntags) == len > ntags + 1

\* a capacity check that also rejects a source as long as the alphabet
NotEnoughTagsStrict(len, ntags) == len >= ntags

\* lib.rs:87  .err_if(|&len| len > tags.len(), NotEnoughTagsError)
NotEnoughTags(len, ntags) == len > ntags

\* lib.rs:88  .err_if(|&len| len == 0, EmptyListError)
EmptyList(len) == len = 0

\* an iterator that never advances: every tag can be yielded again
UnconsumedNoAdvance(alphabet, yielded) == alphabet

\* lib.rs:91  the tags the iterator tags.into_iter() has not yielded yet
Unconsumed(alphabet, yielded) == alphabet \ yielded

\* insert instead of or_insert: the new tag replaces the one already bound
OrInsertOverwrite(m, k, v) ==
    [x \in DOMAIN m \cup {k} |-> IF x = k THEN v ELSE m[x]]

\* lib.rs:95  mappings.entry(k).or_insert(v): v is bound only to a vacant k
OrInsert(m, k, v) ==
    IF k \in DOMAIN m THEN m
    ELSE [x \in DOMAIN m \cup {k} |-> IF x = k THEN v ELSE m[x]]

(* --------------------- make_freq_map, make_freq_list ------------------- *)
\* Counts are u32: a count is at most the length of the source, and a source
\* of 2^32 elements is far outside the bounds, so += 1 never wraps here.
\* or_insert(1) followed by += 1: every count is one too many
CountOneOffByOne(occ, k) ==
    LET o == IF k \in DOMAIN occ THEN occ
             ELSE [x \in DOMAIN occ \cup {k} |-> IF x = k THEN 1 ELSE occ[x]]
    IN [o EXCEPT ![k] = @ + 1]

\* lib.rs:105-106  let count = occurences.entry(byte).or_insert(0); *count += 1
CountOne(occ, k) ==
    LET o == IF k \in DOMAIN occ THEN occ
             ELSE [x \in DOMAIN occ \cup {k} |-> IF x = k THEN 0 ELSE occ[x]]
    IN [o EXCEPT ![k] = @ + 1]

RECURSIVE CountFrom(_, _, _)
\* lib.rs:104-107  the pass over src, left to right, from position i
CountFrom(s, i, occ) ==
    IF i > Len(s) THEN occ ELSE CountFrom(s, i + 1, CountOne(occ, s[i]))

\* lib.rs:100-110
make_freq_map(s) ==
    IF Len(s) = 0 THEN [kind |-> "EmptyListError", val |-> EmptyMap]
    ELSE [kind |-> "Ok", val |-> CountFrom(s, 1, EmptyMap)]

RECURSIVE InsertSorted(_, _)
InsertSorted(sorted, v) ==
    IF sorted = <<>> THEN <<v>>
    ELSE IF v < Head(sorted) THEN <<v>> \o sorted
    ELSE <<Head(sorted)>> \o InsertSorted(Tail(sorted), v)

RECURSIVE SortFrom(_, _, _)
SortFrom(list, i, sorted) ==
    IF i > Len(list) THEN sorted
    ELSE SortFrom(list, i + 1, InsertSorted(sorted, list[i]))

\* a sort that puts the largest count first
SortDescending(list) ==
    LET asc == SortFrom(list, 1, <<>>)
    IN [i \in 1..Len(asc) |-> asc[Len(asc) + 1 - i]]

\* lib.rs:118  list.sort(): ascending, equal elements kept
Sort(list) == SortFrom(list, 1, <<>>)

\* lib.rs:112-120  drainOrder is the order in which drain() yields the keys
make_freq_list(occ, drainOrder) ==
    IF DOMAIN occ = {} THEN Err("EmptyListError")
    ELSE Ok(Sort([i \in 1..Len(drainOrder) |-> occ[drainOrder[i]]]))

(* ----------------------- print_bytes, parse_bytes ---------------------- *)
Modes == {"Binary", "Hexadecimal", "Octal", "Decimal"}

DigitChars == <<"0", "1", "2", "3", "4", "5", "6", "7", "8", "9",
                "a", "b", "c", "d", "e", "f">>

Whitespace == {" ", "\t", "\n"}

\* lib.rs:22-27  the discriminants of ConversionMode
ConversionRadix(m) ==
    CASE m = "Binary" -> 2
      [] m = "Hexadecimal" -> 16
      [] m = "Octal" -> 8
      [] m = "Decimal" -> 10

\* the arms of Hexadecimal and Octal exchanged
FormatRadixSwapped(m) ==
    CASE m = "Binary" -> 2
      [] m = "Hexadecimal" -> 8
      [] m = "Octal" -> 16
      [] m = "Decimal" -> 10

\* lib.rs:64-69  the base of each arm's format: {b:b}, {b:x}, {b:o}, {b}
FormatRadix(m) ==
    CASE m = "Binary" -> 2
      [] m = "Hexadecimal" -> 16
      [] m = "Octal" -> 8
      [] m = "Decimal" -> 10

\* lib.rs:65  only the Binary arm has a width (0>8): fill with '0' to 8
FormatWidth(m) == IF m = "Binary" THEN 8 ELSE 0

RECURSIVE ToDigits(_, _)
\* the digits of n in the given base, most significant first, minimal width
ToDigits(n, radix) ==
    IF n < radix THEN <<DigitChars[n + 1]>>
    ELSE ToDigits(n \div radix, radix) \o <<DigitChars[(n % radix) + 1]>>

RECURSIVE PadLeft(_, _)
PadLeft(s, width) == IF Len(s) >= width THEN s ELSE PadLeft(<<"0">> \o s, width)

\* lib.rs:63-70
print_byte(b, m) == PadLeft(ToDigits(b, FormatRadix(m)), FormatWidth(m))

RECURSIVE PrintFrom(_, _, _, _)
\* lib.rs:56-58  .map(|b| print_byte(*b, print_mode) + " ").collect::<String>()
PrintFrom(list, i, m, acc) ==
    IF i > Len(list) THEN acc
    ELSE PrintFrom(list, i + 1, m, acc \o print_byte(list[i], m) \o <<" ">>)

\* lib.rs:54-61  the last character (the separator after the last byte) popped
print_bytes(list, m) ==
    IF Len(list) = 0 THEN Err("EmptyListError")
    ELSE LET joined == PrintFrom(list, 1, m, <<>>)
         IN Ok(SubSeq(joined, 1, Len(joined) - 1))

RECURSIVE SplitFrom(_, _, _, _)
\* str::split_whitespace: the maximal runs of non-whitespace characters
SplitFrom(s, i, cur, acc) ==
    LET closed == IF cur = <<>> THEN acc ELSE Append(acc, cur)
    IN IF i > Len(s) THEN closed
       ELSE IF s[i] \in Whitespace THEN SplitFrom(s, i + 1, <<>>, closed)
       ELSE SplitFrom(s, i + 1, Append(cur, s[i]), acc)

split_whitespace(s) == SplitFrom(s, 1, <<>>, <<>>)

\* char::to_digit(radix): -1 stands for None
ToDigit(c, radix) ==
    LET hits == {d \in 0..(radix - 1) : DigitChars[d + 1] = c}
    IN IF hits = {} THEN -1 ELSE CHOOSE d \in hits : TRUE

RECURSIVE AccumulateFrom(_, _, _, _)
\* u8::from_str_radix's loop: checked_mul, checked_add, overflow past 255
AccumulateFrom(s, i, radix, acc) ==
    IF i > Len(s) THEN [kind |-> "Ok", val |-> acc]
    ELSE LET d == ToDigit(s[i], radix)
         IN IF d < 0 THEN [kind |-> "ParseIntError", val |-> 0]
            ELSE IF acc * radix + d > 255
            THEN [kind |-> "ParseIntError", val |-> 0]
            ELSE AccumulateFrom(s, i + 1, radix, acc * radix + d)

\* lib.rs:39-41  Byte::from_str_radix(s, mode as u32): empty, a lone sign and
\* a '-' are errors, a leading '+' is skipped
byte_from_str(s, m) ==
    IF s = <<>> \/ s = <<"+">> \/ s = <<"-">>
    THEN [kind |-> "ParseIntError", val |-> 0]
    ELSE AccumulateFrom(IF s[1] = "+" THEN Tail(s) ELSE s, 1,
                        ConversionRadix(m), 0)

RECURSIVE ParseFrom(_, _, _, _)
\* lib.rs:46-51  the first token that does not parse ends the call
ParseFrom(toks, i, m, list) ==
    IF i > Len(toks) THEN Ok(list)
    ELSE LET b == byte_from_str(toks[i], m)
         IN IF b.kind # "Ok" THEN Err("ParseIntError")
            ELSE ParseFrom(toks, i + 1, m, Append(list, b.val))

\* lib.rs:43-52
parse_bytes(s, m) ==
    IF Len(s) = 0 THEN Err("EmptyListError")
    ELSE ParseFrom(split_whitespace(s), 1, m, <<>>)

(* ------------------- replace_with_tags, step by step ------------------- *)
IdleReplace ==
    /\ src = <<>> /\ start = 1 /\ end = 0 /\ tags = {} /\ drawn = {}
    /\ mappings = EmptyMap /\ out = <<>> /\ pc = "idle" /\ result = NoResult
    /\ call = 0 /\ prev = NoResult /\ ub = FALSE
    /\ ref_occur = <<>> /\ test = <<>>

InitReplace ==
    /\ src \in SeqsUpTo(Tokens, MaxLen)
    /\ start \in Starts
    /\ end \in 0..MaxTag
    /\ tags = {} /\ drawn = {} /\ mappings = EmptyMap /\ out = <<>>
    /\ pc = "build" /\ result = NoResult /\ call = 1 /\ prev = NoResult
    /\ ub = FALSE /\ ref_occur = <<>> /\ test = <<>>

\* lib.rs:122-132  the caller builds a fresh alphabet for the call
MakeReplaceList ==
    /\ pc = "build"
    /\ tags' = make_replace_list(start, end)
    /\ pc' = "call"
    /\ UNCHANGED <<src, start, end, drawn, mappings, out, result, call, prev,
                   ub, ref_occur, test>>
    /\ UNCHANGED <<freqVars, codecVars>>

\* lib.rs:85-91  the two checks, in order, then the empty map and the iterator
ReplaceCheck ==
    /\ pc = "call"
    /\ IF NotEnoughTags(Len(src), Cardinality(tags))
       THEN result' = Err("NotEnoughTagsError") /\ pc' = "ret"
       ELSE IF EmptyList(Len(src))
       THEN result' = Err("EmptyListError") /\ pc' = "ret"
       ELSE result' = NoResult /\ pc' = "map"
    /\ mappings' = EmptyMap
    /\ drawn' = {}
    /\ out' = <<>>
    /\ UNCHANGED <<src, start, end, tags, call, prev, ub, ref_occur, test>>
    /\ UNCHANGED <<freqVars, codecVars>>

\* lib.rs:92-95  one element of src.iter().map(..): new_tag() is the argument
\* of or_insert, so it is evaluated for every element; unwrap_unchecked on an
\* exhausted iterator is undefined behaviour: any tag may come out of it.
ReplaceStep ==
    /\ pc = "map"
    /\ Len(out) < Len(src)
    /\ LET replaceable == src[Len(out) + 1]
           fresh == Unconsumed(tags, drawn)
       IN \E t \in (IF fresh = {} THEN TagUniverse ELSE fresh) :
            /\ ub' = (ub \/ fresh = {})
            /\ drawn' = drawn \cup {t}
            /\ mappings' = OrInsert(mappings, replaceable, t)
            /\ out' = Append(out, mappings'[replaceable])
    /\ UNCHANGED <<src, start, end, tags, pc, result, call, prev, ref_occur,
                   test>>
    /\ UNCHANGED <<freqVars, codecVars>>

\* lib.rs:96-97  .collect::<Vec<T>>().in_ok()
ReplaceCollect ==
    /\ pc = "map"
    /\ Len(out) = Len(src)
    /\ result' = Ok(out)
    /\ pc' = "ret"
    /\ UNCHANGED <<src, start, end, tags, drawn, mappings, out, call, prev,
                   ub, ref_occur, test>>
    /\ UNCHANGED <<freqVars, codecVars>>

\* lib.rs:151-152  the frequency lists of the source and of the tag list
FreqCheck ==
    /\ pc = "ret"
    /\ call = 1
    /\ result.kind = "Ok"
    /\ LET src_map == make_freq_map(src).val
           tag_map == make_freq_map(result.val).val
       IN \E o1 \in Orders(DOMAIN src_map), o2 \in Orders(DOMAIN tag_map) :
            /\ ref_occur' = make_freq_list(src_map, o1).val
            /\ test' = make_freq_list(tag_map, o2).val
    /\ pc' = "checked"
    /\ UNCHANGED <<src, start, end, tags, drawn, mappings, out, result, call,
                   prev, ub>>
    /\ UNCHANGED <<freqVars, codecVars>>

\* the same source is substituted a second time, with a rebuilt alphabet
SecondCall ==
    /\ call = 1
    /\ \/ pc = "checked"
       \/ pc = "ret" /\ result.kind # "Ok"
    /\ prev' = result
    /\ call' = 2
    /\ pc' = "build"
    /\ tags' = {} /\ drawn' = {} /\ mappings' = EmptyMap /\ out' = <<>>
    /\ result' = NoResult /\ ref_occur' = <<>> /\ test' = <<>>
    /\ UNCHANGED <<src, start, end, ub>>
    /\ UNCHANGED <<freqVars, codecVars>>

(* ------------------ make_freq_map, make_freq_list calls ---------------- *)
IdleFreq ==
    /\ f_src = <<>> /\ occurences = EmptyMap /\ f_map = NoResult
    /\ f_list = NoResult /\ f_pc = "idle"

\* every frequency map with counts up to MaxCount, the empty one included
FreqMaps == UNION {[S -> 0..MaxCount] : S \in SUBSET Tokens}

\* a source for make_freq_map, or a map handed directly to make_freq_list
InitFreq ==
    /\ f_map = NoResult
    /\ f_list = NoResult
    /\ \/ f_pc = "map" /\ f_src \in SeqsUpTo(Tokens, MaxLen)
          /\ occurences = EmptyMap
       \/ f_pc = "list" /\ f_src = <<>> /\ occurences \in FreqMaps

\* lib.rs:100-110  the map goes on to make_freq_list, as in lib.rs:151
MakeFreqMap ==
    /\ f_pc = "map"
    /\ f_map' = make_freq_map(f_src)
    /\ occurences' = f_map'.val
    /\ f_pc' = IF f_map'.kind = "Ok" THEN "list" ELSE "done"
    /\ UNCHANGED <<f_src, f_list>>
    /\ UNCHANGED <<replaceVars, codecVars>>

\* lib.rs:112-120  drain() yields the entries in any order
MakeFreqList ==
    /\ f_pc = "list"
    /\ \E o \in Orders(DOMAIN occurences) :
         f_list' = make_freq_list(occurences, o)
    /\ f_pc' = "done"
    /\ UNCHANGED <<f_src, occurences, f_map>>
    /\ UNCHANGED <<replaceVars, codecVars>>

(* ---------------------- print_bytes, parse_bytes calls ----------------- *)
IdleCodec ==
    /\ mode = "Decimal" /\ bytes = <<>> /\ text = NoResult
    /\ parsed = NoResult /\ c_pc = "idle"

Byte == 0..255

\* bytes at the edges of the digit counts of the four bases
ByteSamples == {0, 1, 7, 8, 9, 10, 15, 16, 255}

\* byte lists: any first byte, sample bytes after it
ByteLists ==
    UNION {{l \in [1..k -> Byte] : \A i \in 2..k : l[i] \in ByteSamples} :
             k \in 0..MaxBytes}

InitCodec ==
    /\ mode \in Modes
    /\ bytes \in ByteLists
    /\ text = NoResult /\ parsed = NoResult /\ c_pc = "input"

\* lib.rs:54-61
PrintBytes ==
    /\ c_pc = "input"
    /\ text' = print_bytes(bytes, mode)
    /\ c_pc' = "printed"
    /\ UNCHANGED <<mode, bytes, parsed>>
    /\ UNCHANGED <<replaceVars, freqVars>>

\* lib.rs:43-52  the printed text parsed back under the same mode
ParseBytes ==
    /\ c_pc = "printed"
    /\ text.kind = "Ok"
    /\ parsed' = parse_bytes(text.val, mode)
    /\ c_pc' = "parsed"
    /\ UNCHANGED <<mode, bytes, text>>
    /\ UNCHANGED <<replaceVars, freqVars>>

(* --------------------------- the specification -------------------------- *)
Init ==
    \/ InitReplace /\ IdleFreq /\ IdleCodec
    \/ IdleReplace /\ InitFreq /\ IdleCodec
    \/ IdleReplace /\ IdleFreq /\ InitCodec

Next ==
    \/ MakeReplaceList
    \/ ReplaceCheck
    \/ ReplaceStep
    \/ ReplaceCollect
    \/ FreqCheck
    \/ SecondCall
    \/ MakeFreqMap
    \/ MakeFreqList
    \/ PrintBytes
    \/ ParseBytes

Spec == Init /\ [][Next]_vars

(* ------------------------------ properties ------------------------------ *)
\* the positions of s holding token k
Positions(s, k) == {i \in DOMAIN s : s[i] = k}

\* positions i and j hold equal elements in s exactly when they do in u
SamePattern(s, u) ==
    /\ Len(s) = Len(u)
    /\ \A i, j \in DOMAIN s : (s[i] = s[j]) <=> (u[i] = u[j])

RECURSIVE SumCounts(_)
SumCounts(m) ==
    IF DOMAIN m = {} THEN 0
    ELSE LET k == CHOOSE x \in DOMAIN m : TRUE
         IN m[k] + SumCounts([x \in DOMAIN m \ {k} |-> m[x]])

\* C1: Frequency preservation. A call on a non-empty source with at least
\* as many tags as elements returns a tag list, and the ascending list of
\* occurrence counts of that tag list equals the one of the source, in
\* length and element by element.
C1_FrequencyPreserved ==
    /\ (pc = "ret" /\ 0 < Len(src) /\ Len(src) <= Cardinality(tags))
         => result.kind = "Ok"
    /\ pc = "checked"
         => /\ test = ref_occur
            /\ Len(ref_occur) = Cardinality(Range(src))
            /\ \A i \in DOMAIN ref_occur : ref_occur[i] >= 1

C1_Witness ==
    /\ pc = "checked"
    /\ Len(src) = 3
    /\ src[1] = src[3] /\ src[1] # src[2]
    /\ test = <<1, 2>>

\* C2: Injectivity. At every step of the pass the token-to-tag map is
\* injective, and two positions of the output hold the same tag exactly
\* when the same positions of the source hold equal tokens.
C2_Injective ==
    pc \in {"map", "ret", "checked"} =>
      /\ \A k1, k2 \in DOMAIN mappings :
           k1 # k2 => mappings[k1] # mappings[k2]
      /\ Len(out) <= Len(src)
      /\ \A i, j \in DOMAIN out : (out[i] = out[j]) <=> (src[i] = src[j])
      /\ result.kind = "Ok" => result.val = out /\ Len(out) = Len(src)

C2_Witness ==
    /\ pc = "ret" /\ result.kind = "Ok"
    /\ Len(src) = 3
    /\ src[1] = src[3] /\ src[1] # src[2]
    /\ result.val[1] = result.val[3] /\ result.val[1] # result.val[2]

\* C3: Capacity boundary. On a non-empty source the call fails with
\* NotEnoughTagsError exactly when the source is longer than the alphabet,
\* and returns a tag list of the source's length otherwise, also when the
\* two lengths are equal; the number of distinct tokens plays no part.
C3_CapacityBoundary ==
    (pc = "ret" /\ Len(src) > 0) =>
      /\ result.kind = "NotEnoughTagsError" <=> Len(src) > Cardinality(tags)
      /\ Len(src) <= Cardinality(tags)
           => result.kind = "Ok" /\ Len(result.val) = Len(src)

C3_Witness ==
    /\ pc = "ret" /\ result.kind = "Ok"
    /\ Len(src) = 3 /\ Cardinality(tags) = 3

\* C4: Empty-input boundary. replace_with_tags on an empty source fails
\* with EmptyListError whatever the alphabet, the empty one included, and
\* never starts its pass; make_freq_map on an empty sequence and
\* make_freq_list on an empty map fail with EmptyListError.
C4_EmptyInput ==
    /\ (pc \in {"map", "ret", "checked"} /\ Len(src) = 0)
         => pc = "ret" /\ result = Err("EmptyListError")
    /\ (f_map.kind # "None" /\ Len(f_src) = 0)
         => f_map.kind = "EmptyListError" /\ f_pc = "done"
    /\ (f_pc = "done" /\ f_map.kind = "None" /\ DOMAIN occurences = {})
         => f_list = Err("EmptyListError")

C4_Witness ==
    /\ pc = "ret" /\ call = 2
    /\ src = <<>> /\ tags = {}
    /\ result = Err("EmptyListError") /\ prev = result

\* C5 as stated: Determinism. The second call, on the same source with an
\* alphabet rebuilt from the same range, returns the tag sequence of the
\* first call, position by position.
C5_Deterministic ==
    (call = 2 /\ pc = "ret") => result = prev

\* C5 as amended: the two calls end alike (both fail with the same error or
\* both return), and the two tag sequences have the same length and hold
\* equal tags at the same pairs of positions.
C5_SamePattern ==
    (call = 2 /\ pc = "ret") =>
      /\ result.kind = prev.kind
      /\ SamePattern(result.val, prev.val)

C5_Witness ==
    /\ call = 2 /\ pc = "ret" /\ result.kind = "Ok"
    /\ Len(src) = 3 /\ src[1] = src[3] /\ src[1] # src[2]
    /\ result.val # prev.val

\* C6: First-come tag assignment. A tag is drawn only for a token not yet
\* in the map: the tags drawn so far are as many as the distinct tokens seen
\* so far (so the k-th distinct token holds the k-th tag drawn), and at the
\* end as many as the distinct tokens of the source.
C6_DrawOnlyForNewToken ==
    pc \in {"map", "ret", "checked"} =>
      /\ Cardinality(drawn) = Cardinality(DOMAIN mappings)
      /\ result.kind = "Ok" => Cardinality(drawn) = Cardinality(Range(src))

\* C7: FrequencyCounter invariant. The keys of the map are the distinct
\* tokens of the source, each value is the number of positions holding the
\* key and at least 1, and the values sum to the source's length.
C7_FreqMap ==
    (f_map.kind # "None" /\ Len(f_src) > 0) =>
      /\ f_map.kind = "Ok"
      /\ DOMAIN f_map.val = Range(f_src)
      /\ \A k \in DOMAIN f_map.val :
           /\ f_map.val[k] = Cardinality(Positions(f_src, k))
           /\ f_map.val[k] >= 1
      /\ SumCounts(f_map.val) = Len(f_src)

C7_Witness ==
    /\ f_map.kind = "Ok"
    /\ f_src = <<"2", "1", "2">>
    /\ f_map.val["2"] = 2 /\ f_map.val["1"] = 1

\* C8: FrequencyDistribution. The list of a non-empty map is ascending, as
\* long as the map has keys, and holds every count as often as the map does.
C8_FreqList ==
    (f_pc = "done" /\ DOMAIN occurences # {}) =>
      /\ f_list.kind = "Ok"
      /\ Len(f_list.val) = Cardinality(DOMAIN occurences)
      /\ \A i, j \in DOMAIN f_list.val :
           i < j => f_list.val[i] <= f_list.val[j]
      /\ \A v \in Range(f_list.val) \cup Range(occurences) :
           Cardinality(Positions(f_list.val, v))
             = Cardinality({k \in DOMAIN occurences : occurences[k] = v})

C8_Witness ==
    /\ f_pc = "done" /\ f_list.kind = "Ok"
    /\ f_list.val = <<1, 1, 2>>

\* the pieces of s between single spaces, empty pieces kept
RECURSIVE PiecesFrom(_, _, _, _)
PiecesFrom(s, i, cur, acc) ==
    IF i > Len(s) THEN Append(acc, cur)
    ELSE IF s[i] = " " THEN PiecesFrom(s, i + 1, <<>>, Append(acc, cur))
    ELSE PiecesFrom(s, i + 1, Append(cur, s[i]), acc)

\* C9: Round-trip byte codec. The text printed for a non-empty byte list
\* parses back, under the same radix, to exactly that list; the text is one
\* token per byte with single spaces between them and none at the end,
\* 8 binary digits per byte in Binary and no leading zero in the other modes.
C9_RoundTrip ==
    /\ (c_pc \in {"printed", "parsed"} /\ bytes # <<>>) =>
         /\ text.kind = "Ok"
         /\ LET pieces == PiecesFrom(text.val, 1, <<>>, <<>>)
            IN /\ Len(pieces) = Len(bytes)
               /\ \A i \in DOMAIN pieces :
                    /\ pieces[i] # <<>>
                    /\ Range(pieces[i]) \subseteq Range(DigitChars)
                    /\ IF mode = "Binary" THEN Len(pieces[i]) = 8
                       ELSE Len(pieces[i]) = 1 \/ pieces[i][1] # "0"
    /\ (c_pc = "parsed" /\ bytes # <<>>) => parsed = Ok(bytes)

C9_Witness ==
    /\ c_pc = "parsed"
    /\ mode = "Hexadecimal"
    /\ bytes = <<171, 16>>
    /\ text.val = <<"a", "b", " ", "1", "0">>
    /\ parsed.val = bytes

\* C10: Exhaustion is unreachable. Whenever the pass asks for the next tag
\* at least one tag has not been yielded, so unwrap_unchecked never meets an
\* exhausted iterator.
C10_NoExhaustion ==
    /\ ~ub
    /\ (pc = "map" /\ Len(out) < Len(src)) => Unconsumed(tags, drawn) # {}

C10_Witness ==
    /\ pc = "ret" /\ result.kind = "Ok"
    /\ Len(src) = 3 /\ Cardinality(tags) = 3 /\ drawn = tags
    /\ src[1] = src[2] /\ src[2] = src[3]

=============================================================================
